---- MODULE Spec2Model ----
(***************************************************************************)
(* geoloc_util: classification of raw location strings into searches or   *)
(* validation errors, execution of the searches against the geocoding     *)
(* endpoint, and the report with its outcome code.                         *)
(*                                                                         *)
(* A string is a sequence of one-character strings.  A formatted message   *)
(* (an f-string of the source) is a record of its kind and its arguments.  *)
(***************************************************************************)
EXTENDS Integers, Sequences, FiniteSets, TLC

VARIABLES
    entry,                \* the function the caller invoked
    pc,                   \* position of the run
    args_locations,       \* args.locations as parsed by argparse
    simulate_web_failure, \* main's / perform_searches' flag
    locations,            \* iteration order of the collection handed to locations_to_searches
    processed,            \* per classified location: what that iteration appended
    searches,             \* locations_to_searches: searches
    errors,               \* locations_to_searches: errors
    responses,            \* per looked-up search: the response object it got (real or fake)
    requests_get,         \* the calls made to requests.get, in order
    successful_searches,  \* perform_searches: successful_searches
    failed_searches,      \* perform_searches: failed_searches
    output_lines,         \* main: output_lines
    outcome               \* main's returned code, NoCode until it returns

vars == <<entry, pc, args_locations, simulate_web_failure, locations, processed,
          searches, errors, responses, requests_get, successful_searches,
          failed_searches, output_lines, outcome>>

\* ---------------------------------------------------------------- bounds
MaxLocs == 2      \* longest --locations list explored
MaxLen == 5       \* longest raw string explored exhaustively

\* ------------------------------------------------------------- constants
STATES ==
    { <<"A","L">>, <<"A","K">>, <<"A","Z">>, <<"A","R">>, <<"C","A">>,
      <<"C","O">>, <<"C","T">>, <<"D","C">>, <<"D","E">>, <<"F","L">>,
      <<"G","A">>, <<"H","I">>, <<"I","D">>, <<"I","L">>, <<"I","N">>,
      <<"I","A">>, <<"K","S">>, <<"K","Y">>, <<"L","A">>, <<"M","E">>,
      <<"M","D">>, <<"M","A">>, <<"M","I">>, <<"M","N">>, <<"M","S">>,
      <<"M","O">>, <<"M","T">>, <<"N","E">>, <<"N","V">>, <<"N","H">>,
      <<"N","J">>, <<"N","M">>, <<"N","Y">>, <<"N","C">>, <<"N","D">>,
      <<"O","H">>, <<"O","K">>, <<"O","R">>, <<"P","A">>, <<"R","I">>,
      <<"S","C">>, <<"S","D">>, <<"T","N">>, <<"T","X">>, <<"U","T">>,
      <<"V","T">>, <<"V","A">>, <<"W","A">>, <<"W","V">>, <<"W","I">>,
      <<"W","Y">> }

US_COUNTRY_CODE == <<"U", "S">>

NAME_STATE == "Name,State"
ZIP_CODE == "Zip code"

FakeStatusCode == 999
StatusOK == 200
ZipDigits == 5
NoCode == 0 - 1

\* ------------------------------------------------------ string primitives
Digits == {"0", "1", "2", "3", "4", "5", "6", "7", "8", "9"}
Whitespace == {" ", "\t", "\n", "\r"}
LowerCase == <<"a","b","c","d","e","f","g","h","i","j","k","l","m",
               "n","o","p","q","r","s","t","u","v","w","x","y","z">>
UpperCase == <<"A","B","C","D","E","F","G","H","I","J","K","L","M",
               "N","O","P","Q","R","S","T","U","V","W","X","Y","Z">>

\* re.match(r'\d{5}', location): anchored at the start, not at the end
MatchesZip(location) ==
    /\ Len(location) >= ZipDigits
    /\ \A k \in 1..ZipDigits : location[k] \in Digits

\* str.split(','): the tokens between the commas, empty ones kept
RECURSIVE SplitFrom(_, _, _)
SplitFrom(s, k, cur) ==
    IF k > Len(s) THEN <<cur>>
    ELSE IF s[k] = "," THEN <<cur>> \o SplitFrom(s, k + 1, <<>>)
    ELSE SplitFrom(s, k + 1, Append(cur, s[k]))

Split(s) == SplitFrom(s, 1, <<>>)

RECURSIVE LStrip(_)
LStrip(s) == IF s # <<>> /\ Head(s) \in Whitespace THEN LStrip(Tail(s)) ELSE s

RECURSIVE RStrip(_)
RStrip(s) ==
    IF s # <<>> /\ s[Len(s)] \in Whitespace THEN RStrip(SubSeq(s, 1, Len(s) - 1)) ELSE s

\* str.strip()
Strip(s) == RStrip(LStrip(s))

UpperChar(c) ==
    IF \E k \in 1..Len(LowerCase) : LowerCase[k] = c
    THEN UpperCase[CHOOSE k \in 1..Len(LowerCase) : LowerCase[k] = c]
    ELSE c

UpperNoop(s) == s

\* str.upper()
Upper(s) == [k \in 1..Len(s) |-> UpperChar(s[k])]

\* ------------------------------------------------------------ classifier
Search(search_type, value) == [search_type |-> search_type, value |-> value]

CommaError(location) == [kind |-> "comma", location |-> location]
CityError(location) == [kind |-> "city", location |-> location]
StateError(location, state) == [kind |-> "state", location |-> location, state |-> state]

LocalErrorsFirstOnly(location, city_candidate, state_candidate) ==
    IF city_candidate = <<>> THEN <<CityError(location)>>
    ELSE IF state_candidate \notin STATES THEN <<StateError(location, state_candidate)>>
    ELSE <<>>

\* local_errors of one name/state candidate
LocalErrors(location, city_candidate, state_candidate) ==
    (IF city_candidate = <<>> THEN <<CityError(location)>> ELSE <<>>)
    \o (IF state_candidate \notin STATES
        THEN <<StateError(location, state_candidate)>> ELSE <<>>)

NameStateOf(location, tokens) ==
    LET city_candidate == Strip(tokens[1])
        state_candidate == Upper(Strip(tokens[2]))
        local_errors == LocalErrors(location, city_candidate, state_candidate)
    IN  IF local_errors # <<>>
        THEN [searches |-> <<>>, errors |-> local_errors]
        ELSE [searches |-> <<Search(NAME_STATE,
                                    city_candidate \o <<",">> \o state_candidate)>>,
              errors |-> <<>>]

ClassifyKeepsGoing(location) ==
    IF MatchesZip(location)
    THEN [searches |-> <<Search(ZIP_CODE, location)>>, errors |-> <<>>]
    ELSE LET tokens == Split(location)
         IN  IF Len(tokens) # 2
             THEN [searches |-> <<Search(NAME_STATE, location)>>,
                   errors |-> <<CommaError(location)>>]
             ELSE NameStateOf(location, tokens)

\* one iteration of the loop of locations_to_searches: what it appends
ClassifyOne(location) ==
    IF MatchesZip(location)
    THEN [searches |-> <<Search(ZIP_CODE, location)>>, errors |-> <<>>]
    ELSE LET tokens == Split(location)
         IN  IF Len(tokens) # 2
             THEN [searches |-> <<>>, errors |-> <<CommaError(location)>>]
             ELSE NameStateOf(location, tokens)

\* -------------------------------------------------------------- executor
\* path and query parameters of the request for one search
RequestFor(search) ==
    [path |-> IF search.search_type = NAME_STATE THEN "direct" ELSE "zip",
     query_param |-> IF search.search_type = NAME_STATE THEN "q" ELSE "zip",
     query |-> search.value \o <<",">> \o US_COUNTRY_CODE,
     limit |-> "1"]

GeoRecord == [name |-> "Cleveland", lat |-> 41, lon |-> -81, country |-> "US"]
GeoRecordLocal ==
    [name |-> "Cleveland", lat |-> 41, lon |-> -81, country |-> "US",
     local_names |-> "en:Cleveland"]
ErrorStatuses == {404}

FakeWebResponse == [kind |-> "response", status_code |-> FakeStatusCode, body |-> <<>>]

\* what requests.get can do for one search: raise (no connection), answer with
\* an error status, or answer 200 with a JSON body of the endpoint's shape
RequestsGet(search) ==
    {[kind |-> "raise"]}
    \cup {[kind |-> "response", status_code |-> c, body |-> <<>>] : c \in ErrorStatuses}
    \cup
    (IF search.search_type = NAME_STATE
     THEN {[kind |-> "response", status_code |-> StatusOK, body |-> b] :
              b \in {<<>>, <<GeoRecord>>, <<GeoRecordLocal>>}}
     ELSE {[kind |-> "response", status_code |-> StatusOK, body |-> b] :
              b \in {GeoRecord, GeoRecordLocal}})

LookupAlwaysReal(search, simulate) ==
    {[called |-> TRUE, response |-> r] : r \in RequestsGet(search)}

\* the response object of one iteration and whether requests.get was called for it
Lookup(search, simulate) ==
    IF simulate
    THEN {[called |-> FALSE, response |-> FakeWebResponse]}
    ELSE {[called |-> TRUE, response |-> r] : r \in RequestsGet(search)}

KeepLocalNames(first_response) == first_response

\* if 'local_names' in first_response: del first_response['local_names']
DelLocalNames(first_response) ==
    [k \in DOMAIN first_response \ {"local_names"} |-> first_response[k]]

NoMatchError == [kind |-> "no_match"]
StatusError(status_code) == [kind |-> "status", status_code |-> status_code]

\* what one iteration of perform_searches appends for a response it received
ProcessResponse(search, response) ==
    IF response.status_code = StatusOK
    THEN IF search.search_type = NAME_STATE /\ Len(response.body) = 0
         THEN [successful |-> <<>>, failed |-> <<<<search, NoMatchError>>>>]
         ELSE LET first_response ==
                      IF search.search_type = NAME_STATE
                      THEN response.body[1] ELSE response.body
              IN  [successful |-> <<<<search, DelLocalNames(first_response)>>>>,
                   failed |-> <<>>]
    ELSE [successful |-> <<>>,
          failed |-> <<<<search, StatusError(response.status_code)>>>>]

\* ------------------------------------------------------------------ main
Range(s) == {s[k] : k \in 1..Len(s)}

\* the orders in which a set can be iterated
Orderings(S) ==
    {p \in [1..Cardinality(S) -> S] : \A a, b \in 1..Cardinality(S) : p[a] = p[b] => a = b}

NoDedup(arg_locations) == {arg_locations}

\* set(args.locations), as the sequence the for loop will see
LocationsSet(arg_locations) == Orderings(Range(arg_locations))

RemovedLine(n) == [kind |-> "removed", n |-> n]
ErrorLine(error) == [kind |-> "error", error |-> error]
SuccessCountLine(n) == [kind |-> "successful_count", n |-> n]
SuccessLine(t) == [kind |-> "successful", search |-> t[1], result |-> t[2]]
FailedCountLine(n) == [kind |-> "failed_count", n |-> n]
FailedLine(t) == [kind |-> "failed", search |-> t[1], error |-> t[2]]

NeverFailed(errs) == FALSE

\* if errors:
ValidationFailed(errs) == errs # <<>>

OutcomeCodeBySuccess(successful, failed) == IF successful = <<>> THEN 2 ELSE 0

\* 2 if failed_searches else 0
OutcomeCode(successful, failed) == IF failed # <<>> THEN 2 ELSE 0

\* ---------------------------------------------------------------- inputs
Str1 == <<"1", "1", "1", "1", "1">>
Str2 == <<"1", "1", "1", "1", "1", "h">>
Str3 == <<"h", ",", "h", "I">>
Str4 == <<" ", "h", ",", " ", "h", "I">>
Str5 == <<",", "h", "I">>
Str6 == <<",", "h">>
Str7 == <<"1", ",", ",">>
Samples == {Str1, Str2, Str3, Str4, Str5, Str6, Str7}

Alphabet == {"1", ",", " ", "h", "I"}
AllStrings == UNION {[1..n -> Alphabet] : n \in 0..MaxLen}
Lists(S) == UNION {[1..n -> S] : n \in 0..MaxLocs}

\* ----------------------------------------------------------------- state
Init ==
    /\ simulate_web_failure \in BOOLEAN
    /\ \/ /\ entry = "main"
          /\ pc = "start"
          /\ args_locations \in Lists(Samples) \cup {<<s>> : s \in AllStrings}
          /\ locations = <<>>
       \/ /\ entry = "locations_to_searches"
          /\ pc = "classify"
          /\ simulate_web_failure = FALSE
          /\ args_locations = <<>>
          /\ locations \in Lists(Samples)
    /\ processed = <<>>
    /\ searches = <<>>
    /\ errors = <<>>
    /\ responses = <<>>
    /\ requests_get = <<>>
    /\ successful_searches = <<>>
    /\ failed_searches = <<>>
    /\ output_lines = <<>>
    /\ outcome = NoCode

\* parser.parse_args: nargs='+' with no location is a usage error (SystemExit)
ParseArgsFail ==
    /\ entry = "main" /\ pc = "start"
    /\ args_locations = <<>>
    /\ pc' = "usage_error"
    /\ UNCHANGED <<entry, args_locations, simulate_web_failure, locations, processed,
                   searches, errors, responses, requests_get, successful_searches,
                   failed_searches, output_lines, outcome>>

\* main up to the call of locations_to_searches
ParseArgs ==
    /\ entry = "main" /\ pc = "start"
    /\ args_locations # <<>>
    /\ \E locations_set \in LocationsSet(args_locations) :
          LET locations_delta == Len(args_locations) - Len(locations_set)
          IN  /\ locations' = locations_set
              /\ output_lines' = IF locations_delta # 0
                                 THEN <<RemovedLine(locations_delta)>> ELSE <<>>
    /\ pc' = "classify"
    /\ UNCHANGED <<entry, args_locations, simulate_web_failure, processed, searches,
                   errors, responses, requests_get, successful_searches,
                   failed_searches, outcome>>

\* one iteration of the loop of locations_to_searches
ClassifyStep ==
    /\ pc = "classify"
    /\ Len(processed) < Len(locations)
    /\ LET location == locations[Len(processed) + 1]
           r == ClassifyOne(location)
       IN  /\ searches' = searches \o r.searches
           /\ errors' = errors \o r.errors
           /\ processed' = Append(processed,
                  [location |-> location,
                   searches |-> SubSeq(searches', Len(searches) + 1, Len(searches')),
                   errors |-> SubSeq(errors', Len(errors) + 1, Len(errors'))])
    /\ UNCHANGED <<entry, pc, args_locations, simulate_web_failure, locations, responses,
                   requests_get, successful_searches, failed_searches, output_lines,
                   outcome>>

\* locations_to_searches returns to a caller other than main
ClassifyReturn ==
    /\ entry = "locations_to_searches" /\ pc = "classify"
    /\ Len(processed) = Len(locations)
    /\ pc' = "done"
    /\ UNCHANGED <<entry, args_locations, simulate_web_failure, locations, processed,
                   searches, errors, responses, requests_get, successful_searches,
                   failed_searches, output_lines, outcome>>

\* main after locations_to_searches returned, with errors: report them, return 1
ValidationError ==
    /\ entry = "main" /\ pc = "classify"
    /\ Len(processed) = Len(locations)
    /\ ValidationFailed(errors)
    /\ output_lines' = output_lines \o [k \in 1..Len(errors) |-> ErrorLine(errors[k])]
    /\ outcome' = 1
    /\ pc' = "done"
    /\ UNCHANGED <<entry, args_locations, simulate_web_failure, locations, processed,
                   searches, errors, responses, requests_get, successful_searches,
                   failed_searches>>

\* main after locations_to_searches returned, without errors: call perform_searches
Execute ==
    /\ entry = "main" /\ pc = "classify"
    /\ Len(processed) = Len(locations)
    /\ ~ValidationFailed(errors)
    /\ pc' = "search"
    /\ UNCHANGED <<entry, args_locations, simulate_web_failure, locations, processed,
                   searches, errors, responses, requests_get, successful_searches,
                   failed_searches, output_lines, outcome>>

\* one iteration of the loop of perform_searches
PerformStep ==
    /\ pc = "search"
    /\ Len(responses) < Len(searches)
    /\ LET search == searches[Len(responses) + 1]
       IN  \E l \in Lookup(search, simulate_web_failure) :
              /\ requests_get' = IF l.called
                                 THEN Append(requests_get, RequestFor(search))
                                 ELSE requests_get
              /\ IF l.response.kind = "raise"
                 THEN /\ pc' = "raised"
                      /\ UNCHANGED <<responses, successful_searches, failed_searches>>
                 ELSE LET r == ProcessResponse(search, l.response)
                      IN  /\ responses' = Append(responses,
                                 [search |-> search, response |-> l.response])
                          /\ successful_searches' = successful_searches \o r.successful
                          /\ failed_searches' = failed_searches \o r.failed
                          /\ pc' = pc
    /\ UNCHANGED <<entry, args_locations, simulate_web_failure, locations, processed,
                   searches, errors, output_lines, outcome>>

\* main after perform_searches returned: the report and the outcome code
Report ==
    /\ pc = "search"
    /\ Len(responses) = Len(searches)
    /\ output_lines' =
          output_lines
          \o (IF successful_searches # <<>>
              THEN <<SuccessCountLine(Len(successful_searches))>>
                   \o [k \in 1..Len(successful_searches) |-> SuccessLine(successful_searches[k])]
              ELSE <<>>)
          \o (IF failed_searches # <<>>
              THEN <<FailedCountLine(Len(failed_searches))>>
                   \o [k \in 1..Len(failed_searches) |-> FailedLine(failed_searches[k])]
              ELSE <<>>)
    /\ outcome' = OutcomeCode(successful_searches, failed_searches)
    /\ pc' = "done"
    /\ UNCHANGED <<entry, args_locations, simulate_web_failure, locations, processed,
                   searches, errors, responses, requests_get, successful_searches,
                   failed_searches>>

Next ==
    \/ ParseArgsFail
    \/ ParseArgs
    \/ ClassifyStep
    \/ ClassifyReturn
    \/ ValidationError
    \/ Execute
    \/ PerformStep
    \/ Report

Spec == Init /\ [][Next]_vars

TypeOK ==
    /\ entry \in {"main", "locations_to_searches"}
    /\ pc \in {"start", "usage_error", "classify", "search", "raised", "done"}
    /\ outcome \in {NoCode, 0, 1, 2}
    /\ Len(processed) <= Len(locations)
    /\ Len(responses) <= Len(searches)

\* ------------------------------------------------ vocabulary of the claims
Min(S) == CHOOSE x \in S : \A y \in S : x <= y
Max(S) == CHOOSE x \in S : \A y \in S : x >= y
Bit(b) == IF b THEN 1 ELSE 0

RECURSIVE Flatten(_)
Flatten(ss) == IF ss = <<>> THEN <<>> ELSE Head(ss) \o Flatten(Tail(ss))

Commas(s) == {k \in 1..Len(s) : s[k] = ","}
FirstToken(s) == IF Commas(s) = {} THEN s ELSE SubSeq(s, 1, Min(Commas(s)) - 1)
\* the text after the first comma, up to the next comma if there is one
SecondToken(s) ==
    LET c == Min(Commas(s))
        later == Commas(s) \ {c}
    IN  SubSeq(s, c + 1, IF later = {} THEN Len(s) ELSE Min(later) - 1)
Blank(t) == \A k \in 1..Len(t) : t[k] \in Whitespace
Trimmed(t) ==
    LET solid == {k \in 1..Len(t) : t[k] \notin Whitespace}
    IN  IF solid = {} THEN <<>> ELSE SubSeq(t, Min(solid), Max(solid))
SameLetter(c, d) ==
    c = d \/ \E k \in 1..Len(LowerCase) : LowerCase[k] = c /\ UpperCase[k] = d
Spells(tr, st) ==
    /\ Len(tr) = Len(st)
    /\ \A k \in 1..Len(st) : SameLetter(tr[k], st[k])
IsStateToken(t) == LET tr == Trimmed(t) IN \E st \in STATES : Spells(tr, st)
StateCodeOf(t) == LET tr == Trimmed(t) IN CHOOSE st \in STATES : Spells(tr, st)
HasZipPrefix(s) == Len(s) >= 5 /\ \A k \in 1..5 : s[k] \in Digits
LookupFailed(r) ==
    \/ r.response.status_code # 200
    \/ r.search.search_type = NAME_STATE /\ r.response.body = <<>>
ChosenRecord(r) ==
    IF r.search.search_type = NAME_STATE THEN r.response.body[1] ELSE r.response.body
Distinct(s) == Cardinality(Range(s))

\* ---------------------------------------------------------------- claims

\* C1: every string given to locations_to_searches contributes to exactly one
\* of the two lists: one search and no error, or at least one error and no
\* search; the lists hold nothing but these contributions, in input order.
C1_EachInputInExactlyOneList ==
    /\ \A k \in 1..Len(processed) :
          /\ processed[k].location = locations[k]
          /\ \/ Len(processed[k].searches) = 1 /\ processed[k].errors = <<>>
             \/ processed[k].searches = <<>> /\ Len(processed[k].errors) >= 1
    /\ searches = Flatten([k \in 1..Len(processed) |-> processed[k].searches])
    /\ errors = Flatten([k \in 1..Len(processed) |-> processed[k].errors])

C1_Witness ==
    /\ entry = "locations_to_searches" /\ pc = "done"
    /\ Len(locations) = 2
    /\ Len(searches) = 1 /\ Len(errors) = 2

\* C2: a run of main with a validation error returns 1 and performs no lookup,
\* real or simulated; it never enters perform_searches.
C2_ValidationErrorStopsBeforeLookups ==
    (entry = "main" /\ errors # <<>>) =>
        /\ pc \in {"classify", "done"}
        /\ pc = "done" => outcome = 1
        /\ responses = <<>> /\ requests_get = <<>>
        /\ successful_searches = <<>> /\ failed_searches = <<>>

C2_Witness ==
    /\ entry = "main" /\ pc = "done" /\ outcome = 1
    /\ searches # <<>> /\ errors # <<>>

\* C3: a run of main that returns yields 1 exactly when validation failed (and
\* then no lookup was made), 2 exactly when validation passed and a lookup
\* failed, 0 exactly when validation passed and every lookup succeeded.
C3_OutcomeCodes ==
    (entry = "main" /\ pc = "done") =>
        /\ outcome \in {0, 1, 2}
        /\ outcome = 1 <=> errors # <<>>
        /\ outcome = 1 => responses = <<>>
        /\ outcome # 1 => Len(responses) = Len(searches)
        /\ outcome = 2 <=>
              (errors = <<>> /\ \E k \in 1..Len(responses) : LookupFailed(responses[k]))
        /\ outcome = 0 <=>
              (errors = <<>> /\ \A k \in 1..Len(responses) : ~LookupFailed(responses[k]))

C3_Witness ==
    /\ entry = "main" /\ pc = "done" /\ outcome = 2
    /\ successful_searches # <<>> /\ failed_searches # <<>>

\* C4: perform_searches never throws: whatever each lookup does, every request
\* made ends in exactly one of the two result lists and the loop goes on.
C4_FailuresCollectedNotThrown ==
    /\ pc # "raised"
    /\ Len(successful_searches) + Len(failed_searches) = Len(responses)
    /\ ~simulate_web_failure => Len(requests_get) = Len(responses)

\* C5: the value of every zip-code search is a 5-digit code.
C5_ZipValueIsFiveDigits ==
    \A k \in 1..Len(searches) :
        searches[k].search_type = ZIP_CODE =>
            /\ Len(searches[k].value) = 5
            /\ \A d \in 1..5 : searches[k].value[d] \in Digits

\* C6: no successful result carries the key local_names, and every other
\* field of the record chosen from the response is unchanged.
C6_NoLocalNames ==
    LET good == SelectSeq(responses, LAMBDA r : ~LookupFailed(r))
    IN  /\ Len(successful_searches) = Len(good)
        /\ \A k \in 1..Len(successful_searches) :
              LET result == successful_searches[k][2]
                  chosen == ChosenRecord(good[k])
              IN  /\ successful_searches[k][1] = good[k].search
                  /\ "local_names" \notin DOMAIN result
                  /\ DOMAIN result = DOMAIN chosen \ {"local_names"}
                  /\ \A f \in DOMAIN result : result[f] = chosen[f]
        /\ \A k \in 1..Len(output_lines) :
              output_lines[k].kind = "successful" =>
                  "local_names" \notin DOMAIN output_lines[k].result

C6_Witness ==
    /\ pc = "done"
    /\ \E a, b \in 1..Len(responses) :
          /\ ~LookupFailed(responses[a]) /\ ~LookupFailed(responses[b])
          /\ responses[a].search.search_type = NAME_STATE
          /\ responses[b].search.search_type = ZIP_CODE
          /\ "local_names" \in DOMAIN ChosenRecord(responses[a])
          /\ "local_names" \in DOMAIN ChosenRecord(responses[b])

\* C7: with simulate_web_failure, requests.get is never called, every search
\* fails with error code 999, none succeeds, and main returns 2 whenever the
\* input passed validation.
C7_SimulatedFailure ==
    simulate_web_failure =>
        /\ requests_get = <<>>
        /\ successful_searches = <<>>
        /\ pc # "raised"
        /\ Len(failed_searches) = Len(responses)
        /\ \A k \in 1..Len(failed_searches) :
              /\ failed_searches[k][1] = searches[k]
              /\ failed_searches[k][2] = [kind |-> "status", status_code |-> 999]
        /\ (entry = "main" /\ pc = "done" /\ errors = <<>>) =>
              /\ outcome = 2
              /\ Len(failed_searches) = Len(searches)

C7_Witness ==
    /\ simulate_web_failure /\ entry = "main" /\ pc = "done"
    /\ outcome = 2 /\ Len(failed_searches) >= 2

\* C8: main classifies each distinct raw string once however often it was
\* given, looks each up at most once (exactly once in a run that returns 0 or
\* 2), and the report starts with the line "Removed N ..." exactly when N > 0.
C8_Deduplication ==
    (entry = "main" /\ pc \notin {"start", "usage_error"}) =>
        LET N == Len(args_locations) - Distinct(args_locations)
        IN  /\ Range(locations) = Range(args_locations)
            /\ Len(locations) = Distinct(args_locations)
            /\ \A a, b \in 1..Len(processed) :
                  processed[a].location = processed[b].location => a = b
            /\ pc # "classify" => Len(processed) = Distinct(args_locations)
            /\ N > 0 <=> (output_lines # <<>> /\ output_lines[1].kind = "removed")
            /\ \A k \in 1..Len(output_lines) :
                  output_lines[k].kind = "removed" => k = 1 /\ output_lines[k].n = N
            /\ Len(responses) <= Distinct(args_locations)
            /\ \A k \in 1..Len(responses) :
                  responses[k].search = processed[k].searches[1]
            /\ (pc = "done" /\ outcome # 1) => Len(responses) = Distinct(args_locations)

C8_Witness ==
    /\ entry = "main" /\ pc = "done" /\ outcome \in {0, 2}
    /\ Len(args_locations) = 2 /\ Distinct(args_locations) = 1
    /\ output_lines[1] = [kind |-> "removed", n |-> 1]

\* C9 as stated: a string that is no zip-code search gets as many errors as it
\* has violations among wrong comma count, empty city and invalid state.
ViolationCount(s) ==
    Bit(Cardinality(Commas(s)) # 1)
    + Bit(Blank(FirstToken(s)))
    + Bit(Commas(s) # {} /\ ~IsStateToken(SecondToken(s)))

C9_OneErrorPerViolation ==
    \A k \in 1..Len(processed) :
        ~HasZipPrefix(processed[k].location) =>
            Len(processed[k].errors) = ViolationCount(processed[k].location)

\* C9 amended: a string that is no zip-code search and has not exactly one comma
\* gets the comma error alone, its city and state unchecked; with exactly
\* one comma it gets one error per violation among empty city and invalid
\* state, the city error before the state error when it has both.
C9_CommaErrorAloneElseOnePerViolation ==
    \A k \in 1..Len(processed) :
        LET s == processed[k].location
            errs == processed[k].errors
        IN  ~HasZipPrefix(s) =>
                IF Cardinality(Commas(s)) # 1
                THEN errs = <<[kind |-> "comma", location |-> s]>>
                ELSE /\ Len(errs) = Bit(Blank(FirstToken(s)))
                                    + Bit(~IsStateToken(SecondToken(s)))
                     /\ Blank(FirstToken(s)) =>
                            errs[1] = [kind |-> "city", location |-> s]
                     /\ ~IsStateToken(SecondToken(s)) =>
                            /\ errs[Len(errs)].kind = "state"
                            /\ errs[Len(errs)].location = s

C9_Witness ==
    \E k \in 1..Len(processed) :
        /\ Cardinality(Commas(processed[k].location)) = 1
        /\ Len(processed[k].errors) = 2

\* C10: a string that is no zip-code search yields a name/state search exactly
\* when it has one comma, a city that is not blank and a state token that,
\* trimmed and uppercased, is one of the 51 codes; the value is then the
\* trimmed city, a comma and the uppercase code.
C10_NameStateSearch ==
    /\ Cardinality(STATES) = 51
    /\ \A k \in 1..Len(processed) :
          LET s == processed[k].location
          IN  ~HasZipPrefix(s) =>
                  LET valid == /\ Cardinality(Commas(s)) = 1
                               /\ ~Blank(FirstToken(s))
                               /\ IsStateToken(SecondToken(s))
                  IN  /\ processed[k].searches # <<>> <=> valid
                      /\ valid =>
                            processed[k].searches =
                               <<[search_type |-> NAME_STATE,
                                  value |-> Trimmed(FirstToken(s)) \o <<",">>
                                            \o StateCodeOf(SecondToken(s))]>>
    /\ \A k \in 1..Len(searches) :
          searches[k].search_type = NAME_STATE =>
              LET v == searches[k].value
              IN  /\ Cardinality(Commas(v)) = 1
                  /\ FirstToken(v) # <<>> /\ Trimmed(FirstToken(v)) = FirstToken(v)
                  /\ SecondToken(v) \in STATES

C10_Witness ==
    \E k \in 1..Len(processed) :
        /\ processed[k].location = <<" ", "h", ",", " ", "h", "I">>
        /\ processed[k].searches =
              <<[search_type |-> NAME_STATE, value |-> <<"h", ",", "H", "I">>]>>

====
